---- MODULE Spec2Model ----
(***************************************************************************)
(* Model of the profolio crypto portfolio tracker: the browser client      *)
(* (class CryptoPortfolio, src/unnamed/part_002) and the HTTP API          *)
(* (src/unnamed/part_000).                                                 *)
(*                                                                         *)
(* JavaScript values are tagged records [k, n, d]: a finite number is the  *)
(* reduced fraction n/d, and NaN, null, undefined and the string 'N/A'     *)
(* are kept as values of their own.  IEEE-754 rounding is abstracted:      *)
(* arithmetic on finite numbers is exact.                                  *)
(***************************************************************************)
EXTENDS Integers, Sequences, FiniteSets, TLC

\* ------------------------------------------------------------------------
\* JavaScript values and arithmetic
\* ------------------------------------------------------------------------

Abs(x) == IF x < 0 THEN -x ELSE x

RECURSIVE Gcd(_, _)
Gcd(a, b) == IF b = 0 THEN a ELSE Gcd(b, a % b)

\* The finite number n/d (d # 0), reduced, denominator positive.
Num(n, d) ==
    LET s == IF d < 0 THEN -1 ELSE 1
        g == Gcd(Abs(n), Abs(d))
    IN  [k |-> "num", n |-> (s * n) \div g, d |-> (s * d) \div g]

Int2Num(i) == [k |-> "num", n |-> i, d |-> 1]
Zero == Int2Num(0)
NaN == [k |-> "nan", n |-> 0, d |-> 1]
Null == [k |-> "null", n |-> 0, d |-> 1]
Undefined == [k |-> "undefined", n |-> 0, d |-> 1]
NA == [k |-> "N/A", n |-> 0, d |-> 1]

IsNum(x) == x.k = "num"

\* ToNumber: null is 0, undefined and a non-numeric string are NaN.
ToNumber(x) ==
    CASE x.k = "num" -> x
      [] x.k = "null" -> Zero
      [] OTHER -> NaN

\* a + b, a - b, a * b, a / b on numeric operands (no string reaches `+`).
Add(a, b) ==
    LET x == ToNumber(a) y == ToNumber(b)
    IN  IF IsNum(x) /\ IsNum(y) THEN Num(x.n * y.d + y.n * x.d, x.d * y.d) ELSE NaN

Sub(a, b) ==
    LET x == ToNumber(a) y == ToNumber(b)
    IN  IF IsNum(x) /\ IsNum(y) THEN Num(x.n * y.d - y.n * x.d, x.d * y.d) ELSE NaN

Mul(a, b) ==
    LET x == ToNumber(a) y == ToNumber(b)
    IN  IF IsNum(x) /\ IsNum(y) THEN Num(x.n * y.n, x.d * y.d) ELSE NaN

\* Division is only applied with a non-zero divisor in the modelled code
\* (amount > 0, totalCost > 0); 0/0 is NaN.
Div(a, b) ==
    LET x == ToNumber(a) y == ToNumber(b)
    IN  IF IsNum(x) /\ IsNum(y) /\ y.n # 0 THEN Num(x.n * y.d, x.d * y.n) ELSE NaN

\* a < b, a > b, a <= b: false whenever an operand is NaN.
Lt(a, b) ==
    LET x == ToNumber(a) y == ToNumber(b)
    IN  IsNum(x) /\ IsNum(y) /\ x.n * y.d < y.n * x.d

Gt(a, b) == Lt(b, a)

Le(a, b) ==
    LET x == ToNumber(a) y == ToNumber(b)
    IN  IsNum(x) /\ IsNum(y) /\ x.n * y.d <= y.n * x.d

\* a === b on numbers: NaN is not equal to itself.
StrictEq(a, b) == IF a.k = "nan" \/ b.k = "nan" THEN FALSE ELSE a = b

\* Truthiness: 0, NaN, null and undefined are falsy; 'N/A' is truthy.
Truthy(x) ==
    CASE x.k = "num" -> x.n # 0
      [] x.k = "N/A" -> TRUE
      [] OTHER -> FALSE

\* a || b
Or(a, b) == IF Truthy(a) THEN a ELSE b

\* JSON.parse(JSON.stringify(x)) on a number: NaN is written as null.
JsonNum(x) == IF x.k = "nan" THEN Null ELSE x

\* ------------------------------------------------------------------------
\* Bounds and input sets
\* ------------------------------------------------------------------------

\* Number of handler runs explored after the first page load.
MaxSteps == 3

\* The symbols of the model, and the notes of its holdings.
Symbols == {"BTC", "ETH"}
Notes == {"", "x"}

\* String.prototype.toUpperCase on the symbol field.
toUpperCase(s) ==
    CASE s = "btc" -> "BTC"
      [] OTHER -> s

\* parseFloat on the texts typed into the numeric fields (amount, purchase
\* price, total cost): an empty or non-numeric field is NaN.
parseFloat(s) ==
    CASE s = "-1" -> Int2Num(-1)
      [] s = "0" -> Zero
      [] s = "1" -> Int2Num(1)
      [] s = "50" -> Int2Num(50)
      [] s = "100" -> Int2Num(100)
      [] s = "300" -> Int2Num(300)
      [] OTHER -> NaN

\* String.prototype.trim on the note field.
trim(s) ==
    CASE s = " x " -> "x"
      [] OTHER -> s

\* What is typed into the add-coin form (symbol, amount, purchase price, note):
\* complete forms, and forms with one field empty, non-numeric or out of range.
FormInputs ==
    { <<"btc", "1", "100", "">>,
      <<"btc", "1", "300", "">>,
      <<"btc", "1", "100", " x ">>,
      <<"ETH", "1", "0", "">>,
      <<"btc", "1", "", "">>,
      <<"", "1", "100", "">>,
      <<"btc", "", "100", "">>,
      <<"btc", "0", "100", "">>,
      <<"btc", "-1", "100", "">>,
      <<"btc", "1", "-1", "">> }

\* What is typed into the total-cost field.
CostTexts == {"", "-1", "0", "50"}

\* ------------------------------------------------------------------------
\* Holdings
\* ------------------------------------------------------------------------

\* `${symbol}_${note || 'default'}`
uniqueId(symbol, note) == symbol \o "_" \o (IF note = "" THEN "default" ELSE note)

\* JSON.parse(JSON.stringify(coin))
JsonCoin(c) ==
    [id |-> c.id, symbol |-> c.symbol, amount |-> JsonNum(c.amount),
     purchasePrice |-> JsonNum(c.purchasePrice), totalCost |-> JsonNum(c.totalCost),
     averagePrice |-> JsonNum(c.averagePrice), note |-> c.note]

JsonCoins(cs) == [i \in 1..Len(cs) |-> JsonCoin(cs[i])]

\* The holdings of the ledger, in order: this.portfolio holds references to
\* holding objects, heap holds the objects.
Coins(c) == [i \in 1..Len(c.portfolio) |-> c.heap[c.portfolio[i]]]

\* The holdings a list of references denotes.
Deref(heapNow, refs) == [i \in 1..Len(refs) |-> heapNow[refs[i]]]

\* A variant that prices a symbol the cache does not know at 1 instead of 0.
currentPriceUnknownOne(cd, symbol) ==
    IF symbol \in DOMAIN cd THEN Or(cd[symbol], Zero) ELSE Int2Num(1)

\* this.cryptoData[symbol]?.price || 0
currentPrice(cd, symbol) == IF symbol \in DOMAIN cd THEN Or(cd[symbol], Zero) ELSE Zero

\* coin.amount * currentPrice
currentValue(cd, coin) == Mul(coin.amount, currentPrice(cd, coin.symbol))

RECURSIVE SumValue(_, _, _)
SumValue(cd, cs, total) ==
    IF cs = <<>> THEN total
    ELSE SumValue(cd, Tail(cs), Add(total, currentValue(cd, Head(cs))))

RECURSIVE SumCost(_, _)
SumCost(cs, total) ==
    IF cs = <<>> THEN total ELSE SumCost(Tail(cs), Add(total, Head(cs).totalCost))

\* this.portfolio.reduce((total, coin) => total + coin.totalCost, 0)
sumOfCoinCosts(c) == SumCost(Coins(c), Zero)

calculateTotalValue(c) == SumValue(c.cryptoData, Coins(c), Zero)

calculateTotalCost(c) ==
    IF c.portfolioTotalCost # Undefined THEN c.portfolioTotalCost ELSE sumOfCoinCosts(c)

calculateTotalPnl(c) == Sub(calculateTotalValue(c), calculateTotalCost(c))

calculateTotalPnlPercent(c) ==
    LET totalCost == calculateTotalCost(c)
    IN  IF Gt(totalCost, Zero)
        THEN Mul(Div(calculateTotalPnl(c), totalCost), Int2Num(100))
        ELSE Zero

\* A variant that tells the sentinel from a number by cost # 0 instead of cost > 0.
calculatePnlPercentNonZero(value, totalCost) ==
    IF totalCost # Zero
    THEN Mul(Div(Sub(value, totalCost), totalCost), Int2Num(100))
    ELSE NA

\* calculatePnlPercent(currentValue, totalCost)
calculatePnlPercent(value, totalCost) ==
    IF Gt(totalCost, Zero)
    THEN Mul(Div(Sub(value, totalCost), totalCost), Int2Num(100))
    ELSE NA

\* ------------------------------------------------------------------------
\* Client: rendering, sorting, totals, session history
\* (c is the record of the client's mutable state, see Client below)
\* ------------------------------------------------------------------------

\* The Total row of the table; nothing is shown for an empty portfolio.
NoSummaryRow == [shown |-> FALSE, totalCost |-> Zero, totalPnl |-> Zero, totalPnlPercent |-> Zero]

renderSummaryRow(c, totalPortfolioValue) ==
    LET totalCost == SumCost(Coins(c), Zero)
    IN  [shown |-> TRUE,
         totalCost |-> totalCost,
         totalPnl |-> Sub(totalPortfolioValue, totalCost),
         totalPnlPercent |-> calculatePnlPercent(totalPortfolioValue, totalCost)]

renderPortfolio(c) ==
    IF Len(c.portfolio) = 0
    THEN [c EXCEPT !.summaryRow = NoSummaryRow]
    ELSE [c EXCEPT !.summaryRow = renderSummaryRow(c, SumValue(c.cryptoData, Coins(c), Zero))]

\* The value a column sorts on (numeric columns); an unknown column compares equal.
sortValue(c, column, coin) ==
    CASE column = "amount" -> coin.amount
      [] column = "currentValue" -> currentValue(c.cryptoData, coin)
      [] column = "pnl" -> Sub(currentValue(c.cryptoData, coin), coin.totalCost)
      [] OTHER -> Zero

\* a sorts strictly before b: order === 'asc' ? aValue - bValue : bValue - aValue is < 0
sortsBefore(c, column, order, a, b) ==
    IF order = "asc"
    THEN Lt(sortValue(c, column, a), sortValue(c, column, b))
    ELSE Gt(sortValue(c, column, a), sortValue(c, column, b))

RECURSIVE SortInsert(_, _, _, _, _)
SortInsert(c, column, order, sorted, r) ==
    IF sorted = <<>> THEN <<r>>
    ELSE IF sortsBefore(c, column, order, c.heap[r], c.heap[Head(sorted)])
         THEN <<r>> \o sorted
         ELSE <<Head(sorted)>> \o SortInsert(c, column, order, Tail(sorted), r)

RECURSIVE SortRefs(_, _, _, _, _)
SortRefs(c, column, order, todo, sorted) ==
    IF todo = <<>> THEN sorted
    ELSE SortRefs(c, column, order, Tail(todo), SortInsert(c, column, order, sorted, Head(todo)))

\* Array.prototype.sort is stable; the sort is in place and is followed by a render.
sortPortfolio(c, column, order) ==
    renderPortfolio([c EXCEPT !.portfolio = SortRefs(c, column, order, c.portfolio, <<>>)])

\* The cap of the session history.
HistoryCap == 100

\* JSON.stringify of a history entry: the holdings are written out by value.
JsonHistoryEntry(heapNow, e) ==
    [timestamp |-> e.timestamp,
     totalValue |-> JsonNum(e.totalValue),
     totalCost |-> JsonNum(e.totalCost),
     totalPnl |-> JsonNum(e.totalPnl),
     totalPnlPercent |-> JsonNum(e.totalPnlPercent),
     portfolio |-> JsonCoins(Deref(heapNow, e.portfolio))]

\* JSON.stringify(this.portfolioHistory): the text is produced at once, it does
\* not refer to the list it was made from.
JsonHistory(heapNow, h) == <<>> \o [i \in 1..Len(h) |-> JsonHistoryEntry(heapNow, h[i])]

\* A variant of the cap that keeps the oldest entries instead of the newest.
firstEntries(h) == SubSeq(h, 1, HistoryCap)

\* this.portfolioHistory.slice(-HistoryCap)
lastEntries(h) == SubSeq(h, Len(h) - HistoryCap + 1, Len(h))

savePortfolioHistory(c, t, totalValue, totalCost, totalPnl, totalPnlPercent) ==
    LET historyEntry == [timestamp |-> t,
                         totalValue |-> totalValue,
                         totalCost |-> totalCost,
                         totalPnl |-> totalPnl,
                         totalPnlPercent |-> totalPnlPercent,
                         portfolio |-> c.portfolio]
        pushed == Append(c.portfolioHistory, historyEntry)
        kept == IF Len(pushed) > HistoryCap THEN lastEntries(pushed) ELSE pushed
    IN  [c EXCEPT !.portfolioHistory = kept,
                  !.lsHistory = JsonHistory(c.heap, kept)]

updateTotalValue(c, t) ==
    LET totalValue == SumValue(c.cryptoData, Coins(c), Zero)
        totalCost == calculateTotalCost(c)
        totalPnl == Sub(totalValue, totalCost)
        totalPnlPercent == calculatePnlPercent(totalValue, totalCost)
        shown == [c EXCEPT !.panel = [totalValue |-> totalValue,
                                      totalCost |-> totalCost,
                                      totalGain |-> totalPnl,
                                      totalGainPercent |-> totalPnlPercent]]
    IN  savePortfolioHistory(shown, t, totalValue, totalCost, totalPnl, totalPnlPercent)

\* A variant of the final part of the handlers that renders nothing.
noRefresh(c, t) == c

\* renderPortfolio(); sortPortfolio('currentValue', 'desc'); updateTotalValue()
refreshView(c, t) ==
    updateTotalValue(sortPortfolio(renderPortfolio(c), "currentValue", "desc"), t)

\* ------------------------------------------------------------------------
\* Snapshots (client side)
\* ------------------------------------------------------------------------

\* The cap of the client's snapshot list.
SnapshotCap == 50

\* JSON.stringify of a snapshot (localStorage, request body).
JsonSnapshot(s) ==
    [id |-> s.id,
     timestamp |-> s.timestamp,
     description |-> s.description,
     portfolio |-> s.portfolio,
     cryptoData |-> s.cryptoData,
     totalValue |-> JsonNum(s.totalValue),
     totalCost |-> JsonNum(s.totalCost),
     totalPnl |-> JsonNum(s.totalPnl),
     totalPnlPercent |-> JsonNum(s.totalPnlPercent)]

JsonSnapshots(l) == [i \in 1..Len(l) |-> JsonSnapshot(l[i])]

\* JSON.parse(JSON.stringify(this.cryptoData))
JsonCryptoData(cd) == [sym \in DOMAIN cd |-> JsonNum(cd[sym])]

\* A variant of the insertion that restates the cost of the older snapshots.
unshiftRestating(l, snapshot) ==
    <<snapshot>> \o [i \in 1..Len(l) |-> [l[i] EXCEPT !.totalCost = snapshot.totalCost]]

\* A variant of the insertion that cuts the list at its front.
unshiftDroppingNewest(l, snapshot) ==
    LET added == <<snapshot>> \o l
    IN  IF Len(added) > SnapshotCap THEN SubSeq(added, 2, SnapshotCap + 1) ELSE added

\* this.portfolioSnapshots.unshift(snapshot), then slice(0, SnapshotCap)
unshiftSnapshot(l, snapshot) ==
    LET added == <<snapshot>> \o l
    IN  IF Len(added) > SnapshotCap THEN SubSeq(added, 1, SnapshotCap) ELSE added

\* The local half of savePortfolioSnapshots: localStorage.setItem(...)
storeSnapshotsLocally(c) == [c EXCEPT !.lsSnapshots = JsonSnapshots(c.portfolioSnapshots)]

\* The snapshot object createSnapshot builds.
newSnapshot(c, t, description) ==
    [id |-> t,
     timestamp |-> t,
     description |-> description,
     portfolio |-> JsonCoins(Coins(c)),
     cryptoData |-> JsonCryptoData(c.cryptoData),
     totalValue |-> calculateTotalValue(c),
     totalCost |-> calculateTotalCost(c),
     totalPnl |-> calculateTotalPnl(c),
     totalPnlPercent |-> calculateTotalPnlPercent(c)]

\* The snapshot object setTotalCost builds.
costSetSnapshot(c, t, newTotalCost) ==
    [id |-> t,
     timestamp |-> t,
     description |-> "Total Cost Set to",
     portfolio |-> JsonCoins(Coins(c)),
     cryptoData |-> JsonCryptoData(c.cryptoData),
     totalValue |-> calculateTotalValue(c),
     totalCost |-> newTotalCost,
     totalPnl |-> Sub(calculateTotalValue(c), newTotalCost),
     totalPnlPercent |->
        IF Gt(newTotalCost, Zero)
        THEN Mul(Div(Sub(calculateTotalValue(c), newTotalCost), newTotalCost), Int2Num(100))
        ELSE Zero]

\* The snapshot object resetTotalCost builds.
costResetSnapshot(c, t) ==
    [id |-> t,
     timestamp |-> t,
     description |-> "Total Cost Reset to Individual Coin Values",
     portfolio |-> JsonCoins(Coins(c)),
     cryptoData |-> JsonCryptoData(c.cryptoData),
     totalValue |-> calculateTotalValue(c),
     totalCost |-> sumOfCoinCosts(c),
     totalPnl |-> calculateTotalPnl(c),
     totalPnlPercent |-> calculateTotalPnlPercent(c)]

\* ------------------------------------------------------------------------
\* Server: storage and routes
\* ------------------------------------------------------------------------

\* The key saveSnapshot stores under: `snapshot:snapshot-${id}-${ISO timestamp}`.
\* The text is determined by, and determines, the pair (id, timestamp).
snapshotKey(snapshot) == <<snapshot.id, snapshot.timestamp>>

\* setData(key, snapshot) on the snapshot store (a function from keys).
saveSnapshot(store, snapshot) ==
    [key \in DOMAIN store \cup {snapshotKey(snapshot)} |->
        IF key = snapshotKey(snapshot) THEN snapshot ELSE store[key]]

\* POST /api/snapshots: every snapshot of the body is saved.
RECURSIVE postSnapshots(_, _)
postSnapshots(store, body) ==
    IF body = <<>> THEN store
    ELSE postSnapshots(saveSnapshot(store, Head(body)), Tail(body))

\* getAllSnapshots(): the stored snapshots (the listing order is the store's).
getAllSnapshots(store) == {store[key] : key \in DOMAIN store}

\* The snapshots GET /api/latest-totalcost may pick: one of greatest timestamp
\* (the first in listing order among equals).
latestSnapshots(store) ==
    {s \in getAllSnapshots(store) :
        \A o \in getAllSnapshots(store) : o.timestamp <= s.timestamp}

\* GET /api/latest-totalcost: the totalCost values the response may carry.
latestTotalCost(store) ==
    IF DOMAIN store = {} THEN {Null}
    ELSE {IF s.totalCost # Undefined THEN s.totalCost ELSE Null : s \in latestSnapshots(store)}

\* POST /api/transactions on the stored log; body is the JSON of the request.
postTransaction(transactions, body, t) ==
    IF body.symbol = "" \/ ~Truthy(body.amount) \/ body.purchasePrice = Undefined
    THEN transactions
    ELSE Append(transactions,
                [id |-> body.id,
                 timestamp |-> body.timestamp,
                 symbol |-> body.symbol,
                 amount |-> body.amount,
                 purchasePrice |-> body.purchasePrice,
                 totalCost |-> Or(body.totalCost, Mul(body.amount, body.purchasePrice)),
                 note |-> body.note,
                 type |-> body.type])

\* The request body saveTransaction sends.
transactionBody(t, symbol, amount, purchasePrice, totalCost, note, type) ==
    [id |-> t,
     timestamp |-> t,
     symbol |-> symbol,
     amount |-> JsonNum(amount),
     purchasePrice |-> JsonNum(purchasePrice),
     totalCost |-> JsonNum(totalCost),
     note |-> note,
     type |-> type]

\* ------------------------------------------------------------------------
\* State
\* ------------------------------------------------------------------------

VARIABLES
    heap,                \* the holding objects of the page, by reference
    portfolio,           \* this.portfolio: references into heap
    cryptoData,          \* this.cryptoData: symbol -> price
    portfolioTotalCost,  \* this.portfolioTotalCost: the cost override, or undefined
    portfolioHistory,    \* this.portfolioHistory: entries hold references to holdings
    portfolioSnapshots,  \* this.portfolioSnapshots, newest first
    panel,               \* the totals panel (totalValue, totalCost, totalGain, percent)
    summaryRow,          \* the Total row of the table
    lsHistory,           \* localStorage 'cryptoPortfolioHistory'
    lsSnapshots,         \* localStorage 'cryptoPortfolioSnapshots'
    srvPortfolio,        \* server: the stored portfolio
    srvTransactions,     \* server: the stored transaction log
    srvSnapshots,        \* server: the snapshot store, key -> snapshot
    inflight,            \* price requests issued and not yet resolved (their symbols)
    autoTimer,           \* the page-load snapshot timer is pending
    now,                 \* the wall clock, in ms
    last,                \* the handler that ran last and how it ended
    budget,              \* handler runs left to explore
    costSetByUser,       \* history: the user set the override and has not reset it since
    pnlArgs,             \* arguments given to calculatePnlPercent
    pnlResult,           \* what calculatePnlPercent returned for pnlArgs
    exportQuery,         \* the query of the last GET /api/export-history
    exportRows,          \* the CSV rows of its response
    posts,               \* server: the POST /api/transactions handlers, as they arrived
    flows                \* client: the ledger handlers suspended at an await

clientVars == <<heap, portfolio, cryptoData, portfolioTotalCost, portfolioHistory,
                portfolioSnapshots, panel, summaryRow, lsHistory, lsSnapshots>>
serverVars == <<srvPortfolio, srvTransactions, srvSnapshots>>
pureVars == <<pnlArgs, pnlResult>>
exportVars == <<exportQuery, exportRows>>
vars == <<clientVars, serverVars, inflight, autoTimer, now, last, budget, costSetByUser,
          pureVars, exportVars, posts, flows>>

\* The client's mutable state as one record, and its write-back.
Client ==
    [heap |-> heap, portfolio |-> portfolio, cryptoData |-> cryptoData,
     portfolioTotalCost |-> portfolioTotalCost, portfolioHistory |-> portfolioHistory,
     portfolioSnapshots |-> portfolioSnapshots, panel |-> panel, summaryRow |-> summaryRow,
     lsHistory |-> lsHistory, lsSnapshots |-> lsSnapshots]

Becomes(c) ==
    /\ heap' = c.heap
    /\ portfolio' = c.portfolio
    /\ cryptoData' = c.cryptoData
    /\ portfolioTotalCost' = c.portfolioTotalCost
    /\ portfolioHistory' = c.portfolioHistory
    /\ portfolioSnapshots' = c.portfolioSnapshots
    /\ panel' = c.panel
    /\ summaryRow' = c.summaryRow
    /\ lsHistory' = c.lsHistory
    /\ lsSnapshots' = c.lsSnapshots

Holds(c) ==
    /\ heap = c.heap
    /\ portfolio = c.portfolio
    /\ cryptoData = c.cryptoData
    /\ portfolioTotalCost = c.portfolioTotalCost
    /\ portfolioHistory = c.portfolioHistory
    /\ portfolioSnapshots = c.portfolioSnapshots
    /\ panel = c.panel
    /\ summaryRow = c.summaryRow
    /\ lsHistory = c.lsHistory
    /\ lsSnapshots = c.lsSnapshots

\* What `last` records: the handler, whether it went through, and the holding it
\* was about (symbol, note, amount, price), for the handlers that have one.
Ran(op, ok) == [op |-> op, ok |-> ok, symbol |-> "", note |-> "", amount |-> Zero, price |-> Zero]
RanOn(op, symbol, note, amount, price) ==
    [op |-> op, ok |-> TRUE, symbol |-> symbol, note |-> note, amount |-> amount, price |-> price]

\* One handler run: the clock moves on and the run is counted.
Step(op, elapsed) ==
    /\ budget > 0
    /\ budget' = budget - 1
    /\ now' = now + elapsed
    /\ last' = op

\* The symbols loadCryptoPrices asks for: those of the portfolio (all the model's
\* symbols have a CoinGecko id); nothing is fetched for an empty portfolio.
requestedSymbols(c) == {c.heap[c.portfolio[i]].symbol : i \in 1..Len(c.portfolio)}

\* A variant that aborts the requests still in flight when it issues one.
issueAborting(c, pending) ==
    IF requestedSymbols(c) = {} THEN pending ELSE <<requestedSymbols(c)>>

issuePriceRequest(c, pending) ==
    IF requestedSymbols(c) = {} THEN pending ELSE Append(pending, requestedSymbols(c))

\* ------------------------------------------------------------------------
\* Page load: constructor and init()
\* ------------------------------------------------------------------------

EmptyPanel == [totalValue |-> Zero, totalCost |-> Zero, totalGain |-> Zero, totalGainPercent |-> Zero]

\* The number of holdings in the entries of a stored history before entry i.
holdingsBefore(stored, i) ==
    Cardinality(UNION {{<<j, m>> : m \in 1..Len(stored[j].portfolio)} : j \in 1..(i - 1)})

\* JSON.parse of the stored history: every entry gets holding objects of its own,
\* allocated after the objects already in heapNow, entry by entry.
parseHistory(stored, heapNow) ==
    LET offsets == <<>> \o [i \in 1..Len(stored) |-> holdingsBefore(stored, i)]
        total == holdingsBefore(stored, Len(stored) + 1)
        entryOf(n) == CHOOSE j \in 1..Len(stored) :
                          offsets[j] < n /\ n <= offsets[j] + Len(stored[j].portfolio)
        objects == <<>> \o [n \in 1..total |-> stored[entryOf(n)].portfolio[n - offsets[entryOf(n)]]]
        refs(i) == [m \in 1..Len(stored[i].portfolio) |-> Len(heapNow) + offsets[i] + m]
    IN  [heap |-> heapNow \o objects,
         history |-> <<>> \o [i \in 1..Len(stored) |-> [stored[i] EXCEPT !.portfolio = refs(i)]]]

\* loadLatestTotalCost(): data.totalCost !== null && data.totalCost !== undefined
loadLatestTotalCost(c, totalCost) ==
    IF totalCost # Null /\ totalCost # Undefined
    THEN [c EXCEPT !.portfolioTotalCost = totalCost]
    ELSE [c EXCEPT !.portfolioTotalCost = Undefined]

\* loadPortfolioHistory(): an empty stored history of a non-empty portfolio gets a
\* sample entry, which is stored.
loadPortfolioHistory(c, t) ==
    LET loaded == parseHistory(c.lsHistory, c.heap)
        c1 == [c EXCEPT !.heap = loaded.heap, !.portfolioHistory = loaded.history]
        sampleEntry == [timestamp |-> t,
                        totalValue |-> Int2Num(1000),
                        totalCost |-> Int2Num(800),
                        totalPnl |-> Int2Num(200),
                        totalPnlPercent |-> Int2Num(25),
                        portfolio |-> c1.portfolio]
    IN  IF Len(c1.portfolioHistory) = 0 /\ Len(c1.portfolio) > 0
        THEN [c1 EXCEPT !.portfolioHistory = <<sampleEntry>>,
                        !.lsHistory = JsonHistory(c1.heap, <<sampleEntry>>)]
        ELSE c1

\* ensureHistoryEntry()
ensureHistoryEntry(c, t) ==
    IF Len(c.portfolio) > 0 /\ Len(c.portfolioHistory) = 0
    THEN savePortfolioHistory(c, t, calculateTotalValue(c), calculateTotalCost(c),
                              calculateTotalPnl(c), calculateTotalPnlPercent(c))
    ELSE c

\* The client after the constructor and init(), given what the browser and the
\* server hold: loadPortfolio, loadLatestTotalCost, loadPortfolioHistory,
\* loadPortfolioSnapshots, then the first render.
loadedPage(storedHistory, storedSnapshots, storedPortfolio, totalCost, t) ==
    LET constructed == [heap |-> storedPortfolio,
                        portfolio |-> [i \in 1..Len(storedPortfolio) |-> i],
                        cryptoData |-> <<>>,
                        portfolioTotalCost |-> Undefined,
                        portfolioHistory |-> <<>>,
                        portfolioSnapshots |-> <<>>,
                        panel |-> EmptyPanel,
                        summaryRow |-> NoSummaryRow,
                        lsHistory |-> storedHistory,
                        lsSnapshots |-> storedSnapshots]
        costLoaded == loadLatestTotalCost(constructed, totalCost)
        historyLoaded == loadPortfolioHistory(costLoaded, t)
        snapshotsLoaded == [historyLoaded EXCEPT !.portfolioSnapshots = storedSnapshots]
    IN  ensureHistoryEntry(refreshView(snapshotsLoaded, t), t)

\* GET /api/export-history has not been asked yet.
NoDate == -1
NoQuery ==
    [startDate |-> NoDate, endDate |-> NoDate, tz |-> 0, asked |-> FALSE, filtered |-> {}]

\* The first page load, of a browser and a server that hold nothing.
FirstPage == loadedPage(<<>>, <<>>, <<>>, Null, 0)

\* A session: the page shows client c at time t, the server holds the snapshots
\* of store, and b handler runs are explored.
Session(c, store, t, b) ==
    /\ Holds(c)
    /\ srvPortfolio = <<>>
    /\ srvTransactions = <<>>
    /\ srvSnapshots = store
    /\ inflight = <<>>
    /\ autoTimer = FALSE
    /\ now = t
    /\ last = Ran("init", TRUE)
    /\ budget = b
    /\ costSetByUser = FALSE
    /\ pnlResult = Undefined
    /\ exportQuery = NoQuery
    /\ exportRows = <<>>
    /\ posts = <<>>
    /\ flows = <<>>

\* The session right after the first page load.
Init == Session(FirstPage, <<>>, 1, MaxSteps) /\ pnlArgs = <<Zero, Zero>>

\* ------------------------------------------------------------------------
\* Ledger handlers
\* ------------------------------------------------------------------------

\* A variant of the lookup that never finds the holding.
matchingNone(c, symbol, note) == {}

\* The positions of the holdings with this (symbol, note).
matching(c, symbol, note) ==
    {i \in 1..Len(c.portfolio) :
        c.heap[c.portfolio[i]].symbol = symbol /\ c.heap[c.portfolio[i]].note = note}

First(S) == CHOOSE i \in S : \A j \in S : i <= j

\* A variant of the validation without the second early return.
addCoinRejectsMissing(symbol, amount, purchasePrice) ==
    \/ symbol = ""
    \/ ~Truthy(amount)
    \/ purchasePrice = Undefined
    \/ purchasePrice = Null

\* The validation of addCoin: the two early returns.
addCoinRejects(symbol, amount, purchasePrice) ==
    \/ symbol = ""
    \/ ~Truthy(amount)
    \/ purchasePrice = Undefined
    \/ purchasePrice = Null
    \/ Le(amount, Zero)
    \/ Lt(purchasePrice, Zero)

\* A variant of the merge that averages over the amount held before the addition.
mergedCoinStale(old, amount, purchasePrice) ==
    LET newTotalCost == Add(old.totalCost, Mul(amount, purchasePrice))
        newAverage == Div(newTotalCost, old.amount)
    IN  [old EXCEPT !.amount = Add(old.amount, amount),
                    !.totalCost = newTotalCost,
                    !.averagePrice = newAverage,
                    !.purchasePrice = newAverage]

\* The holding after an addition is merged into it.
mergedCoin(old, amount, purchasePrice) ==
    LET newAmount == Add(old.amount, amount)
        newTotalCost == Add(old.totalCost, Mul(amount, purchasePrice))
        newAverage == Div(newTotalCost, newAmount)
    IN  [old EXCEPT !.amount = newAmount,
                    !.totalCost = newTotalCost,
                    !.averagePrice = newAverage,
                    !.purchasePrice = newAverage]

\* The holding a new entry starts as.
newCoin(symbol, amount, purchasePrice, note) ==
    [id |-> uniqueId(symbol, note),
     symbol |-> symbol,
     amount |-> amount,
     purchasePrice |-> purchasePrice,
     totalCost |-> Mul(amount, purchasePrice),
     averagePrice |-> purchasePrice,
     note |-> note]

\* addCoin on the ledger: the first holding with the same symbol and note is
\* updated in place, else a new holding is pushed.
mergeOrAppend(c, symbol, amount, purchasePrice, note) ==
    LET found == matching(c, symbol, note)
    IN  IF found # {}
        THEN LET ref == c.portfolio[First(found)]
             IN  [c EXCEPT !.heap[ref] = mergedCoin(c.heap[ref], amount, purchasePrice)]
        ELSE [c EXCEPT !.heap = Append(c.heap, newCoin(symbol, amount, purchasePrice, note)),
                       !.portfolio = Append(c.portfolio, Len(c.heap) + 1)]

otherVars == <<autoTimer, costSetByUser, pureVars, exportVars, posts, flows>>

addCoin(symbolText, amountText, priceText, noteText) ==
    LET symbol == toUpperCase(symbolText)
        amount == parseFloat(amountText)
        purchasePrice == parseFloat(priceText)
        note == trim(noteText)
        added == mergeOrAppend(Client, symbol, amount, purchasePrice, note)
        shown == refreshView(added, now)
    IN  IF addCoinRejects(symbol, amount, purchasePrice)
        THEN /\ Step(Ran("addCoin", FALSE), 1)
             /\ UNCHANGED <<clientVars, serverVars, inflight, otherVars>>
        ELSE /\ Step(RanOn("addCoin", symbol, note, amount, purchasePrice), 1)
             /\ srvTransactions' =
                    postTransaction(srvTransactions,
                                    transactionBody(now, symbol, amount, purchasePrice,
                                                    Mul(amount, purchasePrice), note, "buy"),
                                    now)
             /\ srvPortfolio' = JsonCoins(Coins(added))
             /\ Becomes(shown)
             /\ inflight' = issuePriceRequest(shown, inflight)
             /\ UNCHANGED <<srvSnapshots, otherVars>>

\* A variant of the filter that looks at the symbol alone.
withoutSymbol(c, symbol, note) ==
    [c EXCEPT !.portfolio =
        SelectSeq(c.portfolio, LAMBDA r : c.heap[r].symbol # symbol)]

\* this.portfolio.filter(coin => !(coin.symbol === symbol && coin.note === note))
withoutCoin(c, symbol, note) ==
    [c EXCEPT !.portfolio =
        SelectSeq(c.portfolio,
                  LAMBDA r : ~(c.heap[r].symbol = symbol /\ c.heap[r].note = note))]

removeCoin(symbol, note) ==
    LET found == matching(Client, symbol, note)
        coinToRemove == heap[portfolio[First(found)]]
        price == IF symbol \in DOMAIN cryptoData
                 THEN Or(cryptoData[symbol], coinToRemove.averagePrice)
                 ELSE coinToRemove.averagePrice
        removed == withoutCoin(Client, symbol, note)
        shown == refreshView(removed, now)
    IN  /\ IF found # {}
           THEN /\ Step(RanOn("removeCoin", symbol, note, coinToRemove.amount, price), 1)
                /\ srvTransactions' =
                       postTransaction(srvTransactions,
                                       transactionBody(now, symbol, coinToRemove.amount, price,
                                                       Mul(coinToRemove.amount, price),
                                                       note, "sell"),
                                       now)
           ELSE /\ Step(Ran("removeCoin", FALSE), 1)
                /\ UNCHANGED srvTransactions
        /\ srvPortfolio' = JsonCoins(Coins(removed))
        /\ Becomes(shown)
        /\ UNCHANGED <<srvSnapshots, inflight, otherVars>>

\* clearPortfolio(), the confirm() dialog answered yes.
clearPortfolio ==
    LET cleared == [Client EXCEPT !.portfolio = <<>>]
    IN  /\ Step(Ran("clearPortfolio", TRUE), 1)
        /\ srvPortfolio' = <<>>
        /\ Becomes(refreshView(cleared, now))
        /\ UNCHANGED <<srvTransactions, srvSnapshots, inflight, otherVars>>

\* The 'Add history entry' button.
addHistoryEntry ==
    /\ Step(Ran("addHistoryEntry", TRUE), 1)
    /\ Becomes(updateTotalValue(Client, now))
    /\ UNCHANGED <<serverVars, inflight, otherVars>>

\* ------------------------------------------------------------------------
\* Snapshot and cost-override handlers
\* ------------------------------------------------------------------------

\* The snapshot is put first, the list is cut to its cap and written to
\* localStorage (savePortfolioSnapshots, local half).
captured(c, snapshot) ==
    storeSnapshotsLocally(
        [c EXCEPT !.portfolioSnapshots = unshiftSnapshot(c.portfolioSnapshots, snapshot)])

\* saveSnapshotsToServer(): the first snapshot of the list is posted, if any.
saveSnapshotsToServer(c, store) ==
    IF Len(c.portfolioSnapshots) = 0 THEN store
    ELSE postSnapshots(store, <<JsonSnapshot(c.portfolioSnapshots[1])>>)

\* createSnapshot(description), after the empty-portfolio check.
snapshotTaken(c, t, description) == captured(c, newSnapshot(c, t, description))

\* The handler reads the clock (Date.now(), new Date()) for the snapshot; elapsed
\* is the time, in ms, until the next handler reads it.
createSnapshotWithin(description, elapsed) ==
    IF Len(portfolio) = 0
    THEN /\ Step(Ran("createSnapshot", FALSE), elapsed)
         /\ UNCHANGED <<clientVars, serverVars, inflight, otherVars>>
    ELSE LET taken == snapshotTaken(Client, now, description)
         IN  /\ Step(Ran("createSnapshot", TRUE), elapsed)
             /\ Becomes(taken)
             /\ srvSnapshots' = saveSnapshotsToServer(taken, srvSnapshots)
             /\ UNCHANGED <<srvPortfolio, srvTransactions, inflight, otherVars>>

createSnapshot(description) == createSnapshotWithin(description, 1)

\* A variant of setTotalCost that writes the new cost into the first holding too.
costSetSpread(c, t, newTotalCost) ==
    LET set == [c EXCEPT !.portfolioTotalCost = newTotalCost,
                         !.heap[c.portfolio[1]].totalCost = newTotalCost]
    IN  captured(set, costSetSnapshot(set, t, newTotalCost))

\* setTotalCost(newTotalCost): the client after an accepted call.
costSet(c, t, newTotalCost) ==
    LET set == [c EXCEPT !.portfolioTotalCost = newTotalCost]
    IN  captured(set, costSetSnapshot(set, t, newTotalCost))

\* A variant of the validation that lets a negative cost through.
setTotalCostRejectsEmpty(c, newTotalCost) == Len(c.portfolio) = 0

\* The two early returns of setTotalCost.
setTotalCostRejects(c, newTotalCost) == Len(c.portfolio) = 0 \/ Lt(newTotalCost, Zero)

setTotalCostWithin(newTotalCost, elapsed) ==
    IF setTotalCostRejects(Client, newTotalCost)
    THEN /\ Step([Ran("setTotalCost", FALSE) EXCEPT !.amount = newTotalCost], elapsed)
         /\ UNCHANGED <<clientVars, serverVars, inflight, otherVars>>
    ELSE LET set == costSet(Client, now, newTotalCost)
         IN  /\ Step(RanOn("setTotalCost", "", "", newTotalCost, Zero), elapsed)
             /\ srvSnapshots' = saveSnapshotsToServer(set, srvSnapshots)
             /\ Becomes(updateTotalValue(renderPortfolio(set), now))
             /\ costSetByUser' = TRUE
             /\ UNCHANGED <<srvPortfolio, srvTransactions, inflight, autoTimer,
                            pureVars, exportVars, posts, flows>>

setTotalCost(newTotalCost) == setTotalCostWithin(newTotalCost, 1)

\* The 'Set total cost' button: a field that is not a number is refused.
setTotalCostClick(costText) ==
    IF parseFloat(costText) = NaN
    THEN /\ Step(Ran("setTotalCostClick", FALSE), 1)
         /\ UNCHANGED <<clientVars, serverVars, inflight, otherVars>>
    ELSE setTotalCost(parseFloat(costText))

\* A variant of resetTotalCost that leaves the override in place.
costResetKeeping(c, t) == captured(c, costResetSnapshot(c, t))

\* resetTotalCost(): the client after an accepted call.
costReset(c, t) ==
    LET cleared == [c EXCEPT !.portfolioTotalCost = Undefined]
    IN  captured(cleared, costResetSnapshot(cleared, t))

resetTotalCostWithin(elapsed) ==
    IF Len(portfolio) = 0
    THEN /\ Step(Ran("resetTotalCost", FALSE), elapsed)
         /\ UNCHANGED <<clientVars, serverVars, inflight, otherVars>>
    ELSE LET reset == costReset(Client, now)
         IN  /\ Step(Ran("resetTotalCost", TRUE), elapsed)
             /\ srvSnapshots' = saveSnapshotsToServer(reset, srvSnapshots)
             /\ Becomes(updateTotalValue(renderPortfolio(reset), now))
             /\ costSetByUser' = FALSE
             /\ UNCHANGED <<srvPortfolio, srvTransactions, inflight, autoTimer,
                            pureVars, exportVars, posts, flows>>

resetTotalCost == resetTotalCostWithin(1)

\* deleteSnapshot(snapshotId), the confirm() dialog answered yes: the snapshots
\* of this id leave the list, which is stored; the first one left is posted.
deleteSnapshot(snapshotId) ==
    LET left == storeSnapshotsLocally(
                    [Client EXCEPT !.portfolioSnapshots =
                        SelectSeq(portfolioSnapshots, LAMBDA s : s.id # snapshotId)])
    IN  /\ Step(Ran("deleteSnapshot", TRUE), 1)
        /\ Becomes(left)
        /\ srvSnapshots' = saveSnapshotsToServer(left, srvSnapshots)
        /\ UNCHANGED <<srvPortfolio, srvTransactions, inflight, otherVars>>

\* The 'Clear all snapshots' button, the confirm() dialog answered yes.
clearSnapshots ==
    LET cleared == storeSnapshotsLocally([Client EXCEPT !.portfolioSnapshots = <<>>])
    IN  /\ Step(Ran("clearSnapshots", TRUE), 1)
        /\ Becomes(cleared)
        /\ srvSnapshots' = saveSnapshotsToServer(cleared, srvSnapshots)
        /\ UNCHANGED <<srvPortfolio, srvTransactions, inflight, otherVars>>

\* ------------------------------------------------------------------------
\* Prices
\* ------------------------------------------------------------------------

\* Responses of the price feed: symbol -> usd price; a symbol may be left out.
PriceQuotes ==
    { [sym \in {"BTC", "ETH"} |-> IF sym = "BTC" THEN Int2Num(150) ELSE Int2Num(70)],
      [sym \in {"BTC"} |-> Int2Num(40)] }

\* The 'Refresh prices' button and the 5-minute interval: a request is issued.
refreshPrices ==
    /\ Step(Ran("refreshPrices", TRUE), 1)
    /\ inflight' = issuePriceRequest(Client, inflight)
    /\ UNCHANGED <<clientVars, serverVars, otherVars>>

\* The price cache built from a response, for the symbols the request asked for.
pricesFrom(symbols, data) == [sym \in symbols \cap DOMAIN data |-> data[sym]]

\* loadCryptoPrices() from its fetch on: request i resolves with the quotes data.
pricesLoaded(i, data) ==
    LET loaded == [Client EXCEPT !.cryptoData = pricesFrom(inflight[i], data)]
    IN  /\ Step(Ran("loadCryptoPrices", TRUE), 1)
        /\ inflight' = SubSeq(inflight, 1, i - 1) \o SubSeq(inflight, i + 1, Len(inflight))
        /\ Becomes(refreshView(loaded, now))
        /\ UNCHANGED <<serverVars, otherVars>>

\* loadCryptoPrices(): request i fails (HTTP error); only a message is shown.
pricesFailed(i) ==
    /\ Step(Ran("loadCryptoPrices", FALSE), 1)
    /\ inflight' = SubSeq(inflight, 1, i - 1) \o SubSeq(inflight, i + 1, Len(inflight))
    /\ UNCHANGED <<clientVars, serverVars, otherVars>>

\* ------------------------------------------------------------------------
\* Page reload, the page-load snapshot timer, time
\* ------------------------------------------------------------------------

\* The delay of the page-load snapshot timer and the snapshot gate, in ms.
AutoSnapshotDelay == 5000
OneHourMs == 3600000

\* The page is loaded again: the memory of the old page is gone, its requests and
\* timers with it; init() runs on what the browser and the server hold.
init ==
    \E totalCost \in latestTotalCost(srvSnapshots) :
        LET page == loadedPage(lsHistory, lsSnapshots, srvPortfolio, totalCost, now)
        IN  /\ Step(Ran("init", TRUE), 1)
            /\ Becomes(page)
            /\ inflight' = issuePriceRequest(page, <<>>)
            /\ autoTimer' = (Len(page.portfolio) > 0)
            /\ UNCHANGED <<serverVars, costSetByUser, pureVars, exportVars, posts, flows>>

\* A variant of the gate that lets every automatic snapshot through.
shouldCreateAlways(store, t) == TRUE

\* shouldCreateAutoSnapshot(): no snapshot stored, or the latest is over an hour old.
shouldCreateAutoSnapshot(store, t) ==
    \/ DOMAIN store = {}
    \/ \E s \in latestSnapshots(store) : t - s.timestamp > OneHourMs

\* The timer set by init() fires. listed: GET /api/snapshots answered with the
\* stored snapshots; when it does not (an error status, or the fetch throws),
\* shouldCreateAutoSnapshot returns true.
autoSnapshot(listed) ==
    /\ autoTimer
    /\ autoTimer' = FALSE
    /\ IF /\ ~listed \/ shouldCreateAutoSnapshot(srvSnapshots, now + AutoSnapshotDelay)
          /\ Len(portfolio) > 0
       THEN LET taken == snapshotTaken(Client, now + AutoSnapshotDelay, "Page Refresh")
            IN  /\ Step(Ran(IF listed THEN "autoSnapshot" ELSE "autoSnapshot, no listing", TRUE),
                        AutoSnapshotDelay + 1)
                /\ Becomes(taken)
                /\ srvSnapshots' = saveSnapshotsToServer(taken, srvSnapshots)
                /\ UNCHANGED <<srvPortfolio, srvTransactions, inflight, costSetByUser,
                               pureVars, exportVars, posts, flows>>
       ELSE /\ Step(Ran(IF listed THEN "autoSnapshot" ELSE "autoSnapshot, no listing", FALSE),
                    AutoSnapshotDelay + 1)
            /\ UNCHANGED <<clientVars, serverVars, inflight, costSetByUser,
                           pureVars, exportVars, posts, flows>>

\* More than an hour passes with the page idle (pending timers fire first).
timePasses ==
    /\ ~autoTimer
    /\ Step(Ran("timePasses", TRUE), OneHourMs + 1)
    /\ UNCHANGED <<clientVars, serverVars, inflight, otherVars>>

\* ------------------------------------------------------------------------
\* The session
\* ------------------------------------------------------------------------

Next ==
    \/ \E form \in FormInputs : addCoin(form[1], form[2], form[3], form[4])
    \/ \E symbol \in Symbols, note \in Notes : removeCoin(symbol, note)
    \/ clearPortfolio
    \/ addHistoryEntry
    \/ createSnapshot("Manual Snapshot")
    \/ \E costText \in CostTexts : setTotalCostClick(costText)
    \/ resetTotalCost
    \/ refreshPrices
    \/ \E i \in 1..Len(inflight), data \in PriceQuotes : pricesLoaded(i, data)
    \/ \E i \in 1..Len(inflight) : pricesFailed(i)
    \/ init
    \/ \E listed \in BOOLEAN : autoSnapshot(listed)
    \/ timePasses

Spec == Init /\ [][Next]_vars

\* The same session explored one handler run further.
DeepSteps == 4

InitDeep == Session(FirstPage, <<>>, 1, DeepSteps) /\ pnlArgs = <<Zero, Zero>>

SpecDeep == InitDeep /\ [][Next]_vars

\* ------------------------------------------------------------------------
\* A session whose history is about to reach its cap
\* ------------------------------------------------------------------------

\* Handler runs explored from the long session.
HistorySteps == 3

\* The entry a click on 'Add history entry' at time t appends on the first page.
\* A click changes nothing but the history, so every click of a row of clicks
\* appends the entry it would append on the first page.
clickEntry(t) ==
    LET h == updateTotalValue(FirstPage, t).portfolioHistory IN h[Len(h)]

\* The client after k clicks on 'Add history entry', the i-th at time i.
clicked(k) ==
    LET history == FirstPage.portfolioHistory \o [i \in 1..k |-> clickEntry(i)]
    IN  [FirstPage EXCEPT !.portfolioHistory = history,
                          !.lsHistory = JsonHistory(FirstPage.heap, history)]

\* The first page after so many clicks that the history holds one entry less
\* than its cap allows, or is full.
InitHistory ==
    \E k \in (HistoryCap - 2)..(HistoryCap - 1) :
        Session(clicked(k), <<>>, 1 + k, HistorySteps) /\ pnlArgs = <<Zero, Zero>>

SpecHistory == InitHistory /\ [][Next]_vars

\* ------------------------------------------------------------------------
\* calculatePnlPercent as a function of its arguments
\* ------------------------------------------------------------------------

\* Arguments range over -PnlRange..PnlRange, a fraction and NaN.
PnlRange == 4

PnlNumbers == {Int2Num(i) : i \in (-PnlRange)..PnlRange} \cup {Num(1, 2), NaN}

InitPnl == Session(FirstPage, <<>>, 1, 0) /\ pnlArgs \in PnlNumbers \X PnlNumbers

\* calculatePnlPercent(currentValue, totalCost) is called on the arguments.
pnlPercentCalled ==
    /\ pnlResult = Undefined
    /\ pnlResult' = calculatePnlPercent(pnlArgs[1], pnlArgs[2])
    /\ UNCHANGED <<clientVars, serverVars, inflight, autoTimer, now, last, budget,
                   costSetByUser, pnlArgs, exportVars, posts, flows>>

NextPnl == pnlPercentCalled

SpecPnl == InitPnl /\ [][NextPnl]_vars

\* ------------------------------------------------------------------------
\* GET /api/export-history
\* ------------------------------------------------------------------------

\* Times are ms since the epoch; a date 'YYYY-MM-DD' is the number of its UTC day.
DayMs == 24 * OneHourMs

\* new Date(snapshot.timestamp).toISOString().split('T')[0]
dateKey(t) == t \div DayMs

\* new Date('YYYY-MM-DD'): midnight UTC of the day
parseDate(day) == day * DayMs

\* end.setHours(23, 59, 59, 999): the last ms of the day that time t falls in on
\* the server's clock, which is tz ms ahead of UTC.
setHoursEndOfDay(t, tz) == ((t + tz) \div DayMs) * DayMs + (DayMs - 1) - tz

\* Number(x.toFixed(2)) in cents: the nearest, the one away from zero of two.
toFixed2(x) ==
    LET cents == (Abs(x.n) * 200 + x.d) \div (2 * x.d)
    IN  IF x.n < 0 THEN 0 - cents ELSE cents

\* allSnapshots.sort((a, b) => new Date(a.timestamp) - new Date(b.timestamp)),
\* which is stable.
RECURSIVE sortByTimestamp(_, _)
sortByTimestamp(unsorted, sorted) ==
    IF unsorted = <<>> THEN sorted
    ELSE LET s == Head(unsorted)
             before == SelectSeq(sorted, LAMBDA o : o.timestamp <= s.timestamp)
             after == SelectSeq(sorted, LAMBDA o : o.timestamp > s.timestamp)
         IN  sortByTimestamp(Tail(unsorted), before \o <<s>> \o after)

\* The filter of the route: start and end are NoDate or times.
inRange(snapshot, start, end) ==
    /\ ~(start # NoDate /\ snapshot.timestamp < start)
    /\ ~(end # NoDate /\ snapshot.timestamp > end)

\* filteredSnapshots.forEach(...): the latest snapshot per day, the first of equals.
RECURSIVE aggregateDaily(_, _)
aggregateDaily(filtered, dailySnapshots) ==
    IF filtered = <<>> THEN dailySnapshots
    ELSE LET snapshot == Head(filtered)
             key == dateKey(snapshot.timestamp)
         IN  aggregateDaily(Tail(filtered),
                 IF \/ key \notin DOMAIN dailySnapshots
                    \/ snapshot.timestamp > dailySnapshots[key].timestamp
                 THEN (key :> snapshot) @@ dailySnapshots
                 ELSE dailySnapshots)

\* Object.entries(dailySnapshots).sort(by date).map(...), and toFixed(2) of each.
csvRows(dailySnapshots) ==
    LET days == DOMAIN dailySnapshots
        nth(i) == CHOOSE d \in days : Cardinality({o \in days : o < d}) = i - 1
    IN  [i \in 1..Cardinality(days) |->
            [date |-> nth(i), portfolio |-> toFixed2(dailySnapshots[nth(i)].totalValue)]]

\* filteredSnapshots of the route: the snapshots, as getAllSnapshots lists them,
\* sorted by timestamp and filtered by the range.
filteredSnapshotsOf(listing, startDate, endDate, tz) ==
    LET start == IF startDate # NoDate THEN parseDate(startDate) ELSE NoDate
        end == IF endDate # NoDate THEN setHoursEndOfDay(parseDate(endDate), tz) ELSE NoDate
        allSnapshots == sortByTimestamp(listing, <<>>)
    IN  SelectSeq(allSnapshots, LAMBDA s : inRange(s, start, end))

\* The rows of the CSV the route sends.
exportRowsOf(listing, startDate, endDate, tz) ==
    csvRows(aggregateDaily(filteredSnapshotsOf(listing, startDate, endDate, tz), <<>>))

\* The orders getAllSnapshotKeys may list the stored snapshots in.
Listings(store) ==
    LET keys == DOMAIN store
        n == Cardinality(keys)
    IN  {[i \in 1..n |-> store[order[i]]] :
            order \in {o \in [1..n -> keys] : \A i, j \in 1..n : o[i] = o[j] => i = j}}

\* GET /api/export-history?startDate=..&endDate=.. on a server whose clock is tz
\* ms ahead of UTC. One request is followed: the route keeps no state. The
\* request is recorded with the snapshots that passed its filter.
exportHistory(startDate, endDate, tz, listing) ==
    /\ ~exportQuery.asked
    /\ exportQuery' =
           LET filtered == filteredSnapshotsOf(listing, startDate, endDate, tz)
           IN  [startDate |-> startDate, endDate |-> endDate, tz |-> tz, asked |-> TRUE,
                filtered |-> {filtered[i] : i \in 1..Len(filtered)}]
    /\ exportRows' = exportRowsOf(listing, startDate, endDate, tz)
    /\ UNCHANGED <<clientVars, serverVars, inflight, autoTimer, now, last, budget,
                   costSetByUser, pureVars, posts, flows>>

\* Snapshots a server may hold: <<id, timestamp, totalValue>>, of day 0 at 10:00
\* and 22:00 (twice, under two ids) and of day 1 at 09:00 and 20:00 UTC.
ExportCaptures ==
    << <<10 * OneHourMs, 10 * OneHourMs, Int2Num(100)>>,
       <<22 * OneHourMs, 22 * OneHourMs, Int2Num(120)>>,
       <<22 * OneHourMs - 1, 22 * OneHourMs, Int2Num(110)>>,
       <<33 * OneHourMs, 33 * OneHourMs, Int2Num(130)>>,
       <<44 * OneHourMs, 44 * OneHourMs, Num(1001, 8)>> >>

\* The snapshot of capture i as POST /api/snapshots stores it.
capture(i) ==
    [JsonSnapshot(newSnapshot(FirstPage, ExportCaptures[i][2], "Manual Snapshot"))
        EXCEPT !.id = ExportCaptures[i][1], !.totalValue = ExportCaptures[i][3]]

RECURSIVE storeOf(_, _)
storeOf(chosen, store) ==
    IF chosen = {} THEN store
    ELSE LET i == CHOOSE i \in chosen : TRUE
         IN  storeOf(chosen \ {i}, saveSnapshot(store, capture(i)))

ExportStores == {storeOf(chosen, <<>>) : chosen \in SUBSET (1..Len(ExportCaptures))}

ExportDays == {NoDate, 0, 1}

\* The server's clock: UTC-5, UTC, UTC+8.
TimeZones == {0 - 5 * OneHourMs, 0, 8 * OneHourMs}

InitExport ==
    \E store \in ExportStores :
        Session(FirstPage, store, 2 * DayMs, 0) /\ pnlArgs = <<Zero, Zero>>

NextExport ==
    \E startDate, endDate \in ExportDays, tz \in TimeZones, listing \in Listings(srvSnapshots) :
        exportHistory(startDate, endDate, tz, listing)

SpecExport == InitExport /\ [][NextExport]_vars

\* ------------------------------------------------------------------------
\* Removals: a session of additions with numeric prices, price responses that
\* may quote a price of 0, and removals
\* ------------------------------------------------------------------------

RemoveSteps == 4

RemoveForms ==
    { <<"btc", "1", "100", "">>,
      <<"btc", "2", "100", " x ">>,
      <<"ETH", "1", "0", "">> }

\* Responses of the price feed (data[id].usd), one of them quoting BTC at 0.
RemoveQuotes ==
    PriceQuotes \cup {[sym \in {"BTC", "ETH"} |-> IF sym = "BTC" THEN Zero ELSE Int2Num(70)]}

InitRemove == Session(FirstPage, <<>>, 1, RemoveSteps) /\ pnlArgs = <<Zero, Zero>>

NextRemove ==
    \/ \E form \in RemoveForms : addCoin(form[1], form[2], form[3], form[4])
    \/ \E i \in 1..Len(inflight), data \in RemoveQuotes : pricesLoaded(i, data)
    \/ \E symbol \in Symbols, note \in Notes : removeCoin(symbol, note)

SpecRemove == InitRemove /\ [][NextRemove]_vars

\* ------------------------------------------------------------------------
\* POST /api/transactions handler by handler: the read of the stored log
\* (await getData) and its write-back (await setData) are two steps, and the
\* handlers of several requests interleave
\* ------------------------------------------------------------------------

PostSteps == 6

\* Request bodies sent at time t: a buy, a sell, and one without a symbol.
PostBodies(t) ==
    { transactionBody(t, "BTC", Int2Num(1), Int2Num(100), Int2Num(100), "", "buy"),
      transactionBody(t, "ETH", Int2Num(2), Int2Num(70), Int2Num(140), "x", "sell"),
      transactionBody(t, "", Int2Num(1), Int2Num(100), Int2Num(100), "", "buy") }

\* The validation of the handler: these bodies are answered 400.
invalidTransaction(body) ==
    \/ body.symbol = ""
    \/ ~Truthy(body.amount)
    \/ body.purchasePrice = Undefined

\* What the post handlers leave alone.
besidePosts == <<clientVars, srvPortfolio, srvSnapshots, inflight, autoTimer, costSetByUser,
                 pureVars, exportVars, flows>>

\* A request arrives: the handler validates it and, if valid, asks for the log.
postArrives(body) ==
    /\ Step(Ran("postTransaction", ~invalidTransaction(body)), 1)
    /\ posts' = Append(posts, [body |-> body,
                               pc |-> IF invalidTransaction(body) THEN "400" ELSE "getData",
                               transactions |-> <<>>])
    /\ UNCHANGED <<besidePosts, srvTransactions>>

\* let transactions = await getData('transactions', []) of handler i resolves.
postReads(i) ==
    /\ posts[i].pc = "getData"
    /\ Step(Ran("getData", TRUE), 1)
    /\ posts' = [posts EXCEPT ![i].pc = "setData", ![i].transactions = srvTransactions]
    /\ UNCHANGED <<besidePosts, srvTransactions>>

\* Handler i pushes its record on the log it read, writes it back and answers 200.
postWrites(i) ==
    /\ posts[i].pc = "setData"
    /\ Step(Ran("setData", TRUE), 1)
    /\ srvTransactions' = postTransaction(posts[i].transactions, posts[i].body, now)
    /\ posts' = [posts EXCEPT ![i].pc = "200"]
    /\ UNCHANGED besidePosts

InitPosts == Session(FirstPage, <<>>, 1, PostSteps) /\ pnlArgs = <<Zero, Zero>>

NextPosts ==
    \/ \E body \in PostBodies(now) : postArrives(body)
    \/ \E i \in 1..Len(posts) : postReads(i)
    \/ \E i \in 1..Len(posts) : postWrites(i)

SpecPosts == InitPosts /\ [][NextPosts]_vars

\* ------------------------------------------------------------------------
\* Captures: a ledger of one holding, capture handlers and the deletion of
\* snapshots; the next handler may read the clock within the same millisecond
\* (elapsed 0) or later
\* ------------------------------------------------------------------------

CaptureSteps == 4

InitCaptures == Session(FirstPage, <<>>, 1, CaptureSteps) /\ pnlArgs = <<Zero, Zero>>

NextCaptures ==
    \/ addCoin("btc", "1", "100", "")
    \/ \E elapsed \in {0, 1} : createSnapshotWithin("Manual Snapshot", elapsed)
    \/ \E elapsed \in {0, 1} : setTotalCostWithin(Int2Num(50), elapsed)
    \/ \E elapsed \in {0, 1} : resetTotalCostWithin(elapsed)
    \/ \E i \in 1..Len(portfolioSnapshots) : deleteSnapshot(portfolioSnapshots[i].id)
    \/ clearSnapshots

SpecCaptures == InitCaptures /\ [][NextCaptures]_vars

\* ------------------------------------------------------------------------
\* A session of many captures: one holding added at time 1, then a click on
\* 'Create snapshot' every millisecond until the list is one short of its cap,
\* or full
\* ------------------------------------------------------------------------

SnapshotSteps == 2

\* The session after one addCoin at time 1 and k clicks on 'Create snapshot',
\* at times 2..k+1, with b handler runs to explore.
Captured(k, b) ==
    LET added == refreshView(mergeOrAppend(FirstPage, "BTC", Int2Num(1), Int2Num(100), ""), 1)
        taken(t) == newSnapshot(added, t, "Manual Snapshot")
        list == <<>> \o [i \in 1..k |-> taken(k + 2 - i)]
    IN  /\ Holds([added EXCEPT !.portfolioSnapshots = list,
                               !.lsSnapshots = JsonSnapshots(list)])
        /\ srvPortfolio = JsonCoins(Coins(added))
        /\ srvTransactions =
               postTransaction(<<>>, transactionBody(1, "BTC", Int2Num(1), Int2Num(100),
                                                     Int2Num(100), "", "buy"), 1)
        /\ srvSnapshots = [key \in {<<t, t>> : t \in 2..(k + 1)} |-> JsonSnapshot(taken(key[1]))]
        /\ inflight = issuePriceRequest(added, <<>>)
        /\ autoTimer = FALSE
        /\ now = k + 2
        /\ last = IF k = 0 THEN RanOn("addCoin", "BTC", "", Int2Num(1), Int2Num(100))
                           ELSE Ran("createSnapshot", TRUE)
        /\ budget = b
        /\ costSetByUser = FALSE
        /\ pnlArgs = <<Zero, Zero>>
        /\ pnlResult = Undefined
        /\ exportQuery = NoQuery
        /\ exportRows = <<>>
        /\ posts = <<>>
        /\ flows = <<>>

InitSnapshots == \E k \in (SnapshotCap - 1)..SnapshotCap : Captured(k, SnapshotSteps)

SpecSnapshots == InitSnapshots /\ [][NextCaptures]_vars

\* ------------------------------------------------------------------------
\* Page loads of a ledger of one holding, with no snapshot or one stored
\* ------------------------------------------------------------------------

ReloadSteps == 3

InitReload == \E k \in 0..1 : Captured(k, ReloadSteps)

SpecReload == InitReload /\ [][Next]_vars

\* ------------------------------------------------------------------------
\* Properties
\* ------------------------------------------------------------------------

\* The holding of the ledger with this symbol and note, when there is one.
held(symbol, note) == heap[portfolio[First(matching(Client, symbol, note))]]

\* C1: after a successful addCoin every holding of the ledger satisfies
\* totalCost == amount * averagePrice (compared as JavaScript compares numbers).
\* An addition whose price field is empty goes through with a price of NaN and
\* leaves a holding whose totalCost and averagePrice are NaN.
C1_TotalCostIsAmountTimesAverage ==
    (last.op = "addCoin" /\ last.ok) =>
        \A i \in 1..Len(portfolio) :
            StrictEq(heap[portfolio[i]].totalCost,
                     Mul(heap[portfolio[i]].amount, heap[portfolio[i]].averagePrice))

\* C2: an addCoin whose (symbol, note) is already held adds no row and updates
\* the holding in place: amount grows by the added amount, totalCost by
\* amount * purchasePrice, averagePrice becomes totalCost / amount and
\* purchasePrice becomes the new averagePrice; 1@100 then 1@300 gives 2, 400,
\* 200, 200.
C2_MergeUpdatesHolding ==
    [][(last'.op = "addCoin" /\ last'.ok /\ matching(Client, last'.symbol, last'.note) # {}) =>
        LET ref == portfolio[First(matching(Client, last'.symbol, last'.note))]
            old == heap[ref]
            new == heap'[ref]
        IN  /\ Len(portfolio') = Len(portfolio)
            /\ Len(heap') = Len(heap)
            /\ {portfolio'[i] : i \in 1..Len(portfolio')} = {portfolio[i] : i \in 1..Len(portfolio)}
            /\ \A other \in 1..Len(heap) : other # ref => heap'[other] = heap[other]
            /\ new.amount = Add(old.amount, last'.amount)
            /\ new.totalCost = Add(old.totalCost, Mul(last'.amount, last'.price))
            /\ Mul(new.averagePrice, new.amount) = new.totalCost
            /\ new.purchasePrice = new.averagePrice
            /\ new.symbol = old.symbol /\ new.note = old.note /\ new.id = old.id
            /\ (/\ old.amount = Int2Num(1) /\ old.totalCost = Int2Num(100)
                /\ last'.amount = Int2Num(1) /\ last'.price = Int2Num(300))
               => /\ new.amount = Int2Num(2)
                  /\ new.totalCost = Int2Num(400)
                  /\ new.averagePrice = Int2Num(200)
                  /\ new.purchasePrice = Int2Num(200)]_vars

\* 1@100 then 1@300 of BTC were added: one row, merged.
C2_Merged ==
    /\ last.op = "addCoin" /\ last.ok /\ last.price = Int2Num(300)
    /\ Len(portfolio) = 1
    /\ held("BTC", "").amount = Int2Num(2)
    /\ held("BTC", "").totalCost = Int2Num(400)
    /\ held("BTC", "").averagePrice = Int2Num(200)
    /\ held("BTC", "").purchasePrice = Int2Num(200)

\* C3 as stated: calculatePnlPercent returns 'N/A' if and only if the cost is
\* exactly 0, and for every other cost the number (value - cost) / cost * 100.
C3_SentinelIffZeroCost ==
    pnlResult # Undefined =>
        /\ (pnlResult = NA) <=> (pnlArgs[2] = Zero)
        /\ pnlArgs[2] # Zero =>
               pnlResult = Mul(Div(Sub(pnlArgs[1], pnlArgs[2]), pnlArgs[2]), Int2Num(100))

\* C3 as the code has it: calculatePnlPercent returns 'N/A' if and only if the
\* cost is not greater than 0 (zero, negative or not a number); for a cost
\* greater than 0 it returns the number r with r * cost = (value - cost) * 100.
C3_SentinelIffCostNotPositive ==
    pnlResult # Undefined =>
        /\ (pnlResult = NA) <=> ~Gt(pnlArgs[2], Zero)
        /\ Gt(pnlArgs[2], Zero) =>
               /\ pnlResult.k \in {"num", "nan"}
               /\ Mul(pnlResult, pnlArgs[2]) = Mul(Sub(pnlArgs[1], pnlArgs[2]), Int2Num(100))

\* The function was called with a negative cost and returned the sentinel.
C3_NegativeCostGivesSentinel ==
    pnlResult = NA /\ Lt(pnlArgs[2], Zero) /\ IsNum(pnlArgs[1])

\* C4: an accepted resetTotalCost leaves no override, so that the aggregate cost
\* (calculateTotalCost, and the cost the totals panel shows) is the sum of the
\* holdings' totalCost, whatever the override was set to before.
C4_ResetRestoresSum ==
    [][(last'.op = "resetTotalCost" /\ last'.ok) =>
        /\ portfolioTotalCost' = Undefined
        /\ calculateTotalCost(Client)' = sumOfCoinCosts(Client)'
        /\ panel'.totalCost = sumOfCoinCosts(Client)']_vars

\* A cost other than the sum was set and then reset.
C4_SetThenReset ==
    /\ last.op = "resetTotalCost" /\ last.ok
    /\ Len(portfolioSnapshots) >= 2
    /\ portfolioSnapshots[2].description = "Total Cost Set to"
    /\ portfolioSnapshots[2].totalCost # sumOfCoinCosts(Client)
    /\ IsNum(sumOfCoinCosts(Client))

\* C5: as long as the user has not set an override (or has reset it since), the
\* aggregate cost is the sum of the current holdings' totalCost, through
\* snapshots, page reloads and later additions and removals.
C5_NoOverrideUnlessSet ==
    ~costSetByUser => calculateTotalCost(Client) = sumOfCoinCosts(Client)

\* C6: right after setTotalCost the totals panel and the Total row of the table
\* both show the override as the cost, and P&L figures computed from it.
C6_OverrideUsedEverywhere ==
    (last.op = "setTotalCost" /\ last.ok) =>
        /\ panel.totalCost = portfolioTotalCost
        /\ panel.totalGain = Sub(calculateTotalValue(Client), portfolioTotalCost)
        /\ portfolioHistory[Len(portfolioHistory)].totalCost = portfolioTotalCost
        /\ portfolioSnapshots[1].totalCost = portfolioTotalCost
        /\ summaryRow.shown
        /\ summaryRow.totalCost = portfolioTotalCost
        /\ summaryRow.totalPnl = Sub(calculateTotalValue(Client), portfolioTotalCost)

\* C7: setTotalCost and resetTotalCost, accepted or not, leave the ledger as it
\* is: the same holdings in the same order, every field of each unchanged.
C7_CostActionsKeepHoldings ==
    [][(last'.op \in {"setTotalCost", "resetTotalCost"}) =>
        /\ portfolio' = portfolio
        /\ heap' = heap
        /\ Coins(Client)' = Coins(Client)]_vars

\* An override was set on a ledger that holds something.
C7_CostSetOnHoldings ==
    last.op = "setTotalCost" /\ last.ok /\ Len(portfolio) > 0 /\ costSetByUser

\* C8: setTotalCost with a negative cost or on an empty ledger, and
\* resetTotalCost on an empty ledger, are refused and leave the override, the
\* client's snapshot list (in memory and stored) and the server's snapshot store
\* unchanged.
C8_RejectedCostActionsNoEffect ==
    [][(\/ last'.op = "setTotalCost" /\ (Lt(last'.amount, Zero) \/ Len(portfolio) = 0)
        \/ last'.op = "resetTotalCost" /\ Len(portfolio) = 0) =>
        /\ ~last'.ok
        /\ UNCHANGED <<portfolioTotalCost, portfolioSnapshots, lsSnapshots, srvSnapshots>>
        /\ UNCHANGED <<heap, portfolio, portfolioHistory, panel>>]_vars

\* A negative cost was refused on a ledger that holds something.
C8_NegativeRefused ==
    /\ last.op = "setTotalCost" /\ ~last.ok /\ Lt(last.amount, Zero)
    /\ Len(portfolio) > 0

\* The times of the entries of a history, in order.
timestampsOf(h) == [i \in 1..Len(h) |-> h[i].timestamp]

\* C9: the session history never holds more than 100 entries; a click on 'Add
\* history entry' always appends, and a handler that appends to a full history
\* evicts exactly the oldest entry, the others keep their order and the new
\* entry is last (below the cap nothing is evicted).
C9_HistoryCapped ==
    /\ [](Len(portfolioHistory) <= HistoryCap)
    /\ [][(last'.op = "addHistoryEntry") =>
            (timestampsOf(portfolioHistory') # timestampsOf(portfolioHistory))]_vars
    /\ [][(timestampsOf(portfolioHistory') # timestampsOf(portfolioHistory)) =>
            (IF Len(portfolioHistory) = HistoryCap
             THEN timestampsOf(portfolioHistory') =
                      Append(Tail(timestampsOf(portfolioHistory)), now)
             ELSE timestampsOf(portfolioHistory') =
                      Append(timestampsOf(portfolioHistory), now))]_vars

\* The history is full and its first two entries have been evicted.
C9_Evicted ==
    /\ Len(portfolioHistory) = HistoryCap
    /\ portfolioHistory[1].timestamp >= 2
    /\ portfolioHistory[HistoryCap].timestamp >= HistoryCap + 1

\* Whether a stored snapshot is in the range a query asks for: from midnight UTC
\* of the start date to the last ms of the end date's UTC day.
requested(snapshot, query) ==
    /\ query.startDate # NoDate => snapshot.timestamp >= parseDate(query.startDate)
    /\ query.endDate # NoDate => snapshot.timestamp <= parseDate(query.endDate) + DayMs - 1

\* C10: the export has exactly one row per UTC day with a stored snapshot in the
\* requested range, in ascending order of date, and each row carries the
\* totalValue, in cents, of a snapshot of that day and range that none is later
\* than.
C10_OneRowPerDayLatestWins ==
    exportQuery.asked =>
        LET wanted == {srvSnapshots[k] : k \in {k \in DOMAIN srvSnapshots :
                                                   requested(srvSnapshots[k], exportQuery)}}
            ofDay(day) == {s \in wanted : dateKey(s.timestamp) = day}
        IN  /\ {exportRows[i].date : i \in 1..Len(exportRows)} =
                   {dateKey(s.timestamp) : s \in wanted}
            /\ \A i, j \in 1..Len(exportRows) : i < j => exportRows[i].date < exportRows[j].date
            /\ \A i \in 1..Len(exportRows) :
                   \E s \in ofDay(exportRows[i].date) :
                       /\ \A o \in ofDay(exportRows[i].date) : o.timestamp <= s.timestamp
                       /\ exportRows[i].portfolio = toFixed2(s.totalValue)

\* C11: the export aggregates exactly the stored snapshots whose timestamp is
\* in the requested range: from the start date (midnight) to the last ms of the
\* end date's day, a missing bound being unbounded.
C11_FilterIsRequestedRange ==
    exportQuery.asked =>
        exportQuery.filtered =
            {srvSnapshots[k] : k \in {k \in DOMAIN srvSnapshots :
                                         requested(srvSnapshots[k], exportQuery)}}

\* C12: a holding whose symbol the price cache has no entry for has current
\* value 0; when it is the only holding, its totalCost c is greater than 0 and
\* no override is set, the aggregates (computed, and shown in the totals panel
\* and the Total row) are totalValue 0, P&L -c and P&L percent -100.
C12_UnknownPriceValuesZero ==
    \A i \in 1..Len(portfolio) :
        LET coin == heap[portfolio[i]]
        IN  coin.symbol \notin DOMAIN cryptoData =>
                /\ currentValue(cryptoData, coin) = Zero
                /\ (Len(portfolio) = 1 /\ Gt(coin.totalCost, Zero)
                        /\ portfolioTotalCost = Undefined) =>
                       /\ calculateTotalValue(Client) = Zero
                       /\ calculateTotalPnl(Client) = Sub(Zero, coin.totalCost)
                       /\ calculateTotalPnlPercent(Client) = Int2Num(-100)
                       /\ panel.totalValue = Zero
                       /\ panel.totalGain = Sub(Zero, coin.totalCost)
                       /\ panel.totalGainPercent = Int2Num(-100)
                       /\ summaryRow.totalPnl = Sub(Zero, coin.totalCost)
                       /\ summaryRow.totalPnlPercent = Int2Num(-100)

\* The ledger is one holding that cost 100, and no price is known for it.
C12_OneUnpricedHolding ==
    /\ Len(portfolio) = 1
    /\ heap[portfolio[1]].totalCost = Int2Num(100)
    /\ heap[portfolio[1]].symbol \notin DOMAIN cryptoData
    /\ portfolioTotalCost = Undefined
    /\ panel.totalGain = Int2Num(-100)

\* C13: wherever an aggregate P&L percent is recorded next to an aggregate cost
\* of 0 (the totals panel, every history entry, every snapshot of the client's
\* list), it is the sentinel 'N/A' and not a number.
C13_ZeroCostPercentIsSentinel ==
    /\ panel.totalCost = Zero => panel.totalGainPercent = NA
    /\ \A i \in 1..Len(portfolioHistory) :
           portfolioHistory[i].totalCost = Zero => portfolioHistory[i].totalPnlPercent = NA
    /\ \A i \in 1..Len(portfolioSnapshots) :
           portfolioSnapshots[i].totalCost = Zero =>
               portfolioSnapshots[i].totalPnlPercent = NA

\* C14: an addCoin either goes through, and then its symbol is not empty, its
\* amount is a number greater than 0 and its price is not below 0, or it is
\* rejected, and then nothing changes: not the ledger, not the stored portfolio,
\* not the transaction log, nor anything else the client or the server holds.
C14_RejectedAddChangesNothing ==
    [][(last'.op = "addCoin") =>
        IF last'.ok
        THEN /\ last'.symbol # ""
             /\ Truthy(last'.amount)
             /\ Gt(last'.amount, Zero)
             /\ ~Lt(last'.price, Zero)
        ELSE UNCHANGED <<clientVars, serverVars, inflight>>]_vars

\* An addCoin was rejected on a ledger that holds something.
C14_RejectedOnHoldings ==
    /\ last.op = "addCoin" /\ ~last.ok
    /\ Len(portfolio) > 0
    /\ Len(srvTransactions) > 0

\* C15: every holding of the ledger has an amount that is a number greater than 0,
\* a purchase price that is a number not below 0, and a total cost and an average
\* price that are numbers.
C15_HoldingsNumeric ==
    \A i \in 1..Len(portfolio) :
        LET coin == heap[portfolio[i]]
        IN  /\ IsNum(coin.amount) /\ Gt(coin.amount, Zero)
            /\ IsNum(coin.purchasePrice) /\ Le(Zero, coin.purchasePrice)
            /\ IsNum(coin.totalCost)
            /\ IsNum(coin.averagePrice)

\* C16: an addCoin that goes through adds exactly one record to the transaction
\* log, a buy carrying the symbol, the note, the amount and the purchase price of
\* this addition, with totalCost the amount times the purchase price of this
\* addition; an addCoin that is rejected adds none.
C16_AddRecordsOneBuy ==
    [][(last'.op = "addCoin") =>
        IF last'.ok
        THEN /\ Len(srvTransactions') = Len(srvTransactions) + 1
             /\ SubSeq(srvTransactions', 1, Len(srvTransactions)) = srvTransactions
             /\ LET recorded == srvTransactions'[Len(srvTransactions')]
                IN  /\ recorded.type = "buy"
                    /\ recorded.symbol = last'.symbol
                    /\ recorded.note = last'.note
                    /\ recorded.amount = last'.amount
                    /\ recorded.purchasePrice = last'.price
                    /\ recorded.totalCost = Mul(last'.amount, last'.price)
        ELSE srvTransactions' = srvTransactions]_vars

\* The holdings of the ledger, and those of the stored portfolio.
holdings == {heap[portfolio[i]] : i \in 1..Len(portfolio)}

storedHoldings == {srvPortfolio[i] : i \in 1..Len(srvPortfolio)}

\* C17: a removeCoin either found the holding it names, or it found none, and
\* then the ledger and the stored portfolio hold the same holdings as before
\* and the transaction log is unchanged.
C17_RemoveOfAbsentIsNoOp ==
    [][(last'.op = "removeCoin") =>
        IF last'.ok
        THEN matching(Client, last'.symbol, last'.note) # {}
        ELSE /\ holdings' = holdings
             /\ Len(portfolio') = Len(portfolio)
             /\ storedHoldings' = storedHoldings
             /\ Len(srvPortfolio') = Len(srvPortfolio)
             /\ srvTransactions' = srvTransactions]_vars

\* A removeCoin found no holding in a ledger of two.
C17_AbsentRemovedFromTwo ==
    /\ last.op = "removeCoin" /\ ~last.ok
    /\ Len(portfolio) = 2
    /\ Len(srvTransactions) = 2

\* C18: a removeCoin that found its holding leaves the ledger without exactly
\* that holding, and adds exactly one record to the transaction log: a sell of
\* the holding's full amount, priced at the live price of the symbol when the
\* price cache has one and at the holding's averagePrice when it has none.
C18_RemoveSellsAtLivePrice ==
    [][(last'.op = "removeCoin" /\ last'.ok) =>
        LET coinToRemove == held(last'.symbol, last'.note)
            recorded == srvTransactions'[Len(srvTransactions')]
        IN  /\ holdings' = holdings \ {coinToRemove}
            /\ Len(portfolio') = Len(portfolio) - 1
            /\ Len(srvTransactions') = Len(srvTransactions) + 1
            /\ SubSeq(srvTransactions', 1, Len(srvTransactions)) = srvTransactions
            /\ recorded.type = "sell"
            /\ recorded.symbol = last'.symbol
            /\ recorded.note = last'.note
            /\ recorded.amount = coinToRemove.amount
            /\ recorded.purchasePrice =
                   IF last'.symbol \in DOMAIN cryptoData
                   THEN cryptoData[last'.symbol]
                   ELSE coinToRemove.averagePrice]_vars

\* C19: every step leaves the records of the stored transaction log unchanged and
\* in place, adding at most one record at its end, and every write of a
\* POST /api/transactions handler adds exactly one.
C19_LogAppendOnly ==
    [][/\ Len(srvTransactions') \in {Len(srvTransactions), Len(srvTransactions) + 1}
       /\ SubSeq(srvTransactions', 1, Len(srvTransactions)) = srvTransactions
       /\ (last'.op = "setData") => (Len(srvTransactions') = Len(srvTransactions) + 1)]_vars

\* The handlers that capture a snapshot.
Captures == {"createSnapshot", "setTotalCost", "resetTotalCost"}

\* C20: every capture that goes through is stored under a key that no stored
\* snapshot has: the store gains one snapshot, every snapshot stored before is
\* still there as it was, and GET /api/snapshots returns them all.
C20_CapturesNeverCollide ==
    [][(last'.op \in Captures /\ last'.ok) =>
        /\ Cardinality(DOMAIN srvSnapshots') = Cardinality(DOMAIN srvSnapshots) + 1
        /\ \A key \in DOMAIN srvSnapshots :
               key \in DOMAIN srvSnapshots' /\ srvSnapshots'[key] = srvSnapshots[key]
        /\ getAllSnapshots(srvSnapshots) \subseteq getAllSnapshots(srvSnapshots')
        /\ Cardinality(getAllSnapshots(srvSnapshots')) = Cardinality(DOMAIN srvSnapshots')]_vars

\* C21: a step other than a page load leaves every snapshot as it was captured:
\* the snapshots of the client's list are those it held before, plus the one a
\* capture puts first, and every snapshot the server stores is one it stored
\* before under this key, unchanged, or the newest of the client's list.
C21_SnapshotsFrozen ==
    [][(last'.op # "init") =>
        /\ \A i \in 1..Len(portfolioSnapshots') :
               \/ \E j \in 1..Len(portfolioSnapshots) :
                      portfolioSnapshots'[i] = portfolioSnapshots[j]
               \/ /\ i = 1
                  /\ last'.op \in Captures \cup {"autoSnapshot", "autoSnapshot, no listing"}
                  /\ last'.ok
        /\ \A key \in DOMAIN srvSnapshots' :
               \/ key \in DOMAIN srvSnapshots /\ srvSnapshots'[key] = srvSnapshots[key]
               \/ /\ Len(portfolioSnapshots') > 0
                  /\ srvSnapshots'[key] = JsonSnapshot(portfolioSnapshots'[1])]_vars

\* The ledger has changed since a snapshot was captured: the snapshot, in the
\* client's list and on the server, holds one BTC where the ledger holds two.
C21_LedgerMovedOn ==
    /\ last.op = "addCoin" /\ last.ok
    /\ Len(portfolio) = 1 /\ heap[portfolio[1]].amount = Int2Num(2)
    /\ Len(portfolioSnapshots) = 1
    /\ portfolioSnapshots[1].portfolio[1].amount = Int2Num(1)
    /\ \E key \in DOMAIN srvSnapshots : srvSnapshots[key].portfolio[1].amount = Int2Num(1)

\* C22: no step removes a stored snapshot from what GET /api/snapshots returns.
C22_ServerRetainsSnapshots ==
    [][getAllSnapshots(srvSnapshots) \subseteq getAllSnapshots(srvSnapshots')]_vars

\* C23: the client's list never holds more than SnapshotCap snapshots and is
\* ordered newest first; a capture puts its snapshot first, keeps the others in
\* their order, and past the cap drops from the end of the list only.
C23_ListCappedNewestFirst ==
    /\ [](Len(portfolioSnapshots) <= SnapshotCap)
    /\ [](\A i, j \in 1..Len(portfolioSnapshots) :
              (i < j) => (portfolioSnapshots[i].timestamp >= portfolioSnapshots[j].timestamp))
    /\ [][(last'.op \in Captures /\ last'.ok) =>
              (/\ Len(portfolioSnapshots') =
                      IF Len(portfolioSnapshots) < SnapshotCap
                      THEN Len(portfolioSnapshots) + 1 ELSE SnapshotCap
               /\ portfolioSnapshots'[1].timestamp = now
               /\ Tail(portfolioSnapshots') =
                      SubSeq(portfolioSnapshots, 1, Len(portfolioSnapshots') - 1))]_vars

\* A capture on a full list: the oldest snapshot, of time 2, has left the list.
C23_OldestDropped ==
    /\ last.op \in Captures /\ last.ok
    /\ Len(portfolioSnapshots) = SnapshotCap
    /\ portfolioSnapshots[SnapshotCap].timestamp = 3
    /\ portfolioSnapshots[1].timestamp > SnapshotCap + 1

\* C24: a step other than a page load leaves the holdings recorded in every
\* history entry (amount, totalCost, averagePrice, purchasePrice of each) as they
\* were when the entry was taken.
C24_HistoryEntriesFrozen ==
    [][(last'.op # "init") =>
        \A i \in 1..Len(portfolioHistory), j \in 1..Len(portfolioHistory') :
            (portfolioHistory'[j].timestamp = portfolioHistory[i].timestamp) =>
                ([k \in 1..Len(portfolioHistory'[j].portfolio) |->
                      heap'[portfolioHistory'[j].portfolio[k]]]
                 = [k \in 1..Len(portfolioHistory[i].portfolio) |->
                      heap[portfolioHistory[i].portfolio[k]]])]_vars

\* The page-load timer fires on a ledger that holds something.
autoSnapshotRan ==
    /\ last'.op \in {"autoSnapshot", "autoSnapshot, no listing"}
    /\ Len(portfolio) > 0

\* The most recent stored snapshot is at most an hour older than the clock at
\* the time the timer fires.
recentSnapshotStored ==
    \E key \in DOMAIN srvSnapshots :
        /\ \A other \in DOMAIN srvSnapshots :
               srvSnapshots[other].timestamp <= srvSnapshots[key].timestamp
        /\ (now + AutoSnapshotDelay) - srvSnapshots[key].timestamp <= OneHourMs

C26_AutoSnapshotAfterPrices ==
    [][(autoSnapshotRan /\ last'.ok) =>
        /\ DOMAIN cryptoData # {}
        /\ DOMAIN portfolioSnapshots'[1].cryptoData # {}]_vars

\* ------------------------------------------------------------------------
\* The ledger handlers, await by await
\* ------------------------------------------------------------------------
\* addCoin, removeCoin and clearPortfolio are async: each runs to its first await,
\* and goes on when the request it waits for is answered.  `flows` holds the
\* suspended handlers: the one that runs (op), the request it waits for (pc), the
\* transaction it sent (body), the ledger it sent (sent), the holding it is about.
FlowSteps == 5

\* addCoin() up to `await this.saveTransaction(transaction)`: the ledger is merged
\* into or pushed onto in memory, nothing is rendered.
addCoinCalled(symbolText, amountText, priceText, noteText) ==
    LET symbol == toUpperCase(symbolText)
        amount == parseFloat(amountText)
        purchasePrice == parseFloat(priceText)
        note == trim(noteText)
    IN  IF addCoinRejects(symbol, amount, purchasePrice)
        THEN /\ Step(Ran("addCoin", FALSE), 1)
             /\ UNCHANGED <<clientVars, serverVars, inflight, otherVars>>
        ELSE /\ Step(RanOn("addCoin", symbol, note, amount, purchasePrice), 1)
             /\ Becomes(mergeOrAppend(Client, symbol, amount, purchasePrice, note))
             /\ flows' = Append(flows,
                    [op |-> "addCoin", pc |-> "saveTransaction",
                     body |-> transactionBody(now, symbol, amount, purchasePrice,
                                              Mul(amount, purchasePrice), note, "buy"),
                     sent |-> <<>>, symbol |-> symbol, note |-> note])
             /\ UNCHANGED <<serverVars, inflight, autoTimer, costSetByUser, pureVars,
                            exportVars, posts>>

\* removeCoin() up to its first await: `await this.saveTransaction(transaction)`
\* if the holding is found, else the filter (which removes nothing) and
\* `await this.savePortfolio()`.
removeCoinCalled(symbol, note) ==
    LET found == matching(Client, symbol, note)
        coinToRemove == heap[portfolio[First(found)]]
        price == IF symbol \in DOMAIN cryptoData
                 THEN Or(cryptoData[symbol], coinToRemove.averagePrice)
                 ELSE coinToRemove.averagePrice
        removed == withoutCoin(Client, symbol, note)
    IN  /\ IF found # {}
           THEN /\ Step(RanOn("removeCoin", symbol, note, coinToRemove.amount, price), 1)
                /\ UNCHANGED clientVars
                /\ flows' = Append(flows,
                       [op |-> "removeCoin", pc |-> "saveTransaction",
                        body |-> transactionBody(now, symbol, coinToRemove.amount, price,
                                                 Mul(coinToRemove.amount, price),
                                                 note, "sell"),
                        sent |-> <<>>, symbol |-> symbol, note |-> note])
           ELSE /\ Step(Ran("removeCoin", FALSE), 1)
                /\ Becomes(removed)
                /\ flows' = Append(flows,
                       [op |-> "removeCoin", pc |-> "savePortfolio",
                        body |-> Null,
                        sent |-> JsonCoins(Coins(removed)), symbol |-> symbol, note |-> note])
        /\ UNCHANGED <<serverVars, inflight, autoTimer, costSetByUser, pureVars,
                       exportVars, posts>>

\* clearPortfolio() up to `await this.savePortfolio()`.
clearPortfolioCalled ==
    /\ Step(Ran("clearPortfolio", TRUE), 1)
    /\ Becomes([Client EXCEPT !.portfolio = <<>>])
    /\ flows' = Append(flows,
           [op |-> "clearPortfolio", pc |-> "savePortfolio", body |-> Null,
            sent |-> <<>>, symbol |-> "", note |-> ""])
    /\ UNCHANGED <<serverVars, inflight, autoTimer, costSetByUser, pureVars,
                   exportVars, posts>>

\* POST /api/transactions is answered to handler i, which goes on to
\* `await this.savePortfolio()`; removeCoin filters the ledger first.
transactionSaved(i) ==
    LET flow == flows[i]
        after == IF flow.op = "removeCoin"
                 THEN withoutCoin(Client, flow.symbol, flow.note)
                 ELSE Client
    IN  /\ flow.pc = "saveTransaction"
        /\ Step(RanOn("saveTransaction", flow.symbol, flow.note, Zero, Zero), 1)
        /\ srvTransactions' = postTransaction(srvTransactions, flow.body, now)
        /\ Becomes(after)
        /\ flows' = [flows EXCEPT ![i].pc = "savePortfolio",
                                  ![i].sent = JsonCoins(Coins(after))]
        /\ UNCHANGED <<srvPortfolio, srvSnapshots, inflight, autoTimer, costSetByUser,
                       pureVars, exportVars, posts>>

\* POST /api/portfolio is answered to handler i, which runs to its end:
\* renderPortfolio, sortPortfolio, updateTotalValue, and for addCoin
\* loadCryptoPrices.
portfolioSaved(i) ==
    LET flow == flows[i]
        shown == refreshView(Client, now)
    IN  /\ flow.pc = "savePortfolio"
        /\ Step(RanOn("savePortfolio", flow.symbol, flow.note, Zero, Zero), 1)
        /\ srvPortfolio' = flow.sent
        /\ Becomes(shown)
        /\ inflight' = IF flow.op = "addCoin"
                       THEN issuePriceRequest(shown, inflight)
                       ELSE inflight
        /\ flows' = SubSeq(flows, 1, i - 1) \o SubSeq(flows, i + 1, Len(flows))
        /\ UNCHANGED <<srvTransactions, srvSnapshots, autoTimer, costSetByUser,
                       pureVars, exportVars, posts>>

InitFlows == Session(FirstPage, <<>>, 1, FlowSteps) /\ pnlArgs = <<Zero, Zero>>

NextFlows ==
    \/ \E amountText \in {"1", "0"}, noteText \in {"", " x "} :
            addCoinCalled("btc", amountText, "100", noteText)
    \/ \E note \in {"", "x"} : removeCoinCalled("BTC", note)
    \/ clearPortfolioCalled
    \/ \E i \in 1..Len(flows) : transactionSaved(i)
    \/ \E i \in 1..Len(flows) : portfolioSaved(i)
    \/ \E i \in 1..Len(inflight) : pricesLoaded(i, [sym \in {"BTC"} |-> Int2Num(150)])

SpecFlows == InitFlows /\ [][NextFlows]_vars

\* C27: in addCoin, removeCoin and clearPortfolio the re-render follows the
\* completion of the handler's own persistence requests.  The steps of a handler
\* before its last one (the call, the answer to saveTransaction) leave the table,
\* the totals panel and the session history as they were; the step that renders
\* is the one in which the handler's POST /api/portfolio is answered, the ledger
\* it sent being stored, and the transaction it sent, if any, having been
\* handled before.
C27_RenderAfterPersistence ==
    /\ [][last'.op \in {"addCoin", "removeCoin", "clearPortfolio", "saveTransaction"} =>
            /\ summaryRow' = summaryRow
            /\ panel' = panel
            /\ portfolioHistory' = portfolioHistory]_vars
    /\ [][last'.op = "savePortfolio" =>
            \E i \in 1..Len(flows) :
                /\ flows[i].pc = "savePortfolio"
                /\ flows' = SubSeq(flows, 1, i - 1) \o SubSeq(flows, i + 1, Len(flows))
                /\ srvPortfolio' = flows[i].sent
                /\ flows[i].body # Null =>
                       \E k \in 1..Len(srvTransactions) :
                           /\ srvTransactions[k].id = flows[i].body.id
                           /\ srvTransactions[k].type = flows[i].body.type
                /\ Len(portfolioHistory') = Len(portfolioHistory) + 1
                /\ panel'.totalCost = calculateTotalCost(Client)]_vars

\* An addCoin handler has rendered after both its requests were answered, while
\* another handler is still waiting.
C27_AddRenderedAfterSaves ==
    /\ last.op = "savePortfolio"
    /\ last.symbol = "BTC"
    /\ Len(srvPortfolio) = 1
    /\ Len(srvTransactions) >= 1
    /\ Len(portfolioHistory) >= 1
    /\ Len(flows) >= 1

\* C28: overlapping loadCryptoPrices calls.  No handler takes a request out of
\* flight except the resolution of that request (a page load leaves the old
\* page's requests behind with the page); and whenever a response resolves, the
\* price cache is rebuilt from that response alone, for the symbols its request
\* asked for, whatever was issued or resolved before: the last to resolve wins.
\* A failed response leaves the cache as it was.
C28_LastResolvedWins ==
    /\ [][last'.op \notin {"init", "loadCryptoPrices"} =>
            /\ Len(inflight') >= Len(inflight)
            /\ SubSeq(inflight', 1, Len(inflight)) = inflight]_vars
    /\ [][last'.op = "loadCryptoPrices" =>
            \E i \in 1..Len(inflight) :
                /\ inflight' = SubSeq(inflight, 1, i - 1) \o SubSeq(inflight, i + 1, Len(inflight))
                /\ IF last'.ok
                   THEN \E data \in PriceQuotes : cryptoData' = pricesFrom(inflight[i], data)
                   ELSE cryptoData' = cryptoData]_vars

\* Both requests have resolved, the older one last: the request issued when only
\* BTC was held has filled the cache, after the request issued for BTC and ETH
\* had filled it (the session history holds the total it showed then, 150 + 70).
C28_OlderResolvedLast ==
    /\ inflight = <<>>
    /\ last.op = "loadCryptoPrices"
    /\ last.ok
    /\ "ETH" \in requestedSymbols(Client)
    /\ DOMAIN cryptoData = {"BTC"}
    /\ cryptoData["BTC"] = Int2Num(150)
    /\ \E k \in 1..Len(portfolioHistory) : portfolioHistory[k].totalValue = Int2Num(220)

\* C29: from an empty ledger, whatever addCoin, removeCoin and clearPortfolio
\* handlers ran, overlapping or not, no two holdings of the ledger have the same
\* symbol and the same note.
C29_OneHoldingPerSymbolAndNote ==
    \A i, j \in 1..Len(portfolio) :
        (heap[portfolio[i]].symbol = heap[portfolio[j]].symbol
            /\ heap[portfolio[i]].note = heap[portfolio[j]].note) => i = j

\* Two addCoin handlers for the same symbol and note are both waiting for their
\* requests, and the ledger holds the one holding both went into.
C29_OverlappingAddsMerged ==
    /\ Len(flows) = 2
    /\ \A i \in 1..2 : flows[i].op = "addCoin" /\ flows[i].symbol = "BTC" /\ flows[i].note = ""
    /\ Len(portfolio) = 1
    /\ heap[portfolio[1]].amount = Int2Num(2)

\* C30: the record of every POST /api/transactions handler that has answered
\* with success is in the stored log, also when handlers interleave.
C30_AcceptedTransactionsStored ==
    \A i \in 1..Len(posts) :
        posts[i].pc = "200" =>
            \E k \in 1..Len(srvTransactions) :
                /\ srvTransactions[k].id = posts[i].body.id
                /\ srvTransactions[k].symbol = posts[i].body.symbol
                /\ srvTransactions[k].type = posts[i].body.type


====
